---- MODULE Spec2Model ----
(***************************************************************************)
(* Schema derivation of kaiwadb: map_to_type and map_documents_to_tables   *)
(* (src/kaiwadb/schema_mapping.py) and the schema registration done by     *)
(* KaiwaDB.__init__ (src/kaiwadb/kaiwadb.py).                              *)
(*                                                                         *)
(* Python's None is written None, a reserved string that no name, alias,   *)
(* description or key of the model uses.  The empty string "" is an        *)
(* ordinary (falsy) Python string.                                         *)
(***************************************************************************)
EXTENDS Naturals, Sequences, FiniteSets

VARIABLES
    hashOrder,  \* the iteration order of a set of types (decided by hashes, fixed per process)
    abcCheck,   \* whether issubclass(x, BaseModel) hands a non-class x to ABCMeta (fixed per build)
    call,       \* the top-level call made and its arguments, NoCall before it
    result,     \* what that call returned or raised
    client,     \* the KaiwaDB object under construction
    walk        \* the call stack of a map_to_type call in progress

vars == <<hashOrder, abcCheck, call, result, client, walk>>

None == "None"

(***************************************************************************)
(* Type annotations, as typing.get_origin / get_args and issubclass see    *)
(* them.  k = "class": a plain class (int, dict, NoneType, ...);           *)
(* "enum": an Enum subclass; "model": a BaseModel subclass; "alias": a     *)
(* builtin parameterised form (list[int], dict[str, int], int | None);     *)
(* "typing": a form of the typing module (Union[int, str], Optional[int],  *)
(* Dict[str, int], bare List, Literal[...]).  Neither form is a class.     *)
(***************************************************************************)
Class(name) ==
    [k |-> "class", name |-> name, args |-> <<>>, fields |-> <<>>, variants |-> <<>>]

EnumClass(name, variants) ==
    [k |-> "enum", name |-> name, args |-> <<>>, fields |-> <<>>, variants |-> variants]

ModelClass(name, fields) ==
    [k |-> "model", name |-> name, args |-> <<>>, fields |-> fields, variants |-> <<>>]

GenericAlias(origin, args) ==
    [k |-> "alias", name |-> origin, args |-> args, fields |-> <<>>, variants |-> <<>>]

TypingAlias(origin, args) ==
    [k |-> "typing", name |-> origin, args |-> args, fields |-> <<>>, variants |-> <<>>]

\* field.annotation of a field declared without a type annotation
NoAnnotation ==
    [k |-> "none", name |-> None, args |-> <<>>, fields |-> <<>>, variants |-> <<>>]

NoneType == Class("NoneType")

\* one entry of model_fields: the declared name and its FieldInfo
FieldInfo(name, alias, description, annotation) ==
    [name |-> name, alias |-> alias, description |-> description, annotation |-> annotation]

get_origin(annotation) ==
    IF annotation.k \in {"alias", "typing"} THEN annotation.name ELSE None

get_args(annotation) ==
    IF annotation.k \in {"alias", "typing"} THEN annotation.args ELSE <<>>

\* line 92, issubclass(annotation, Enum): TypeError ("issubclass() arg 1 must be a
\* class") for a form of the typing module; a builtin parameterised form answers
\* through its origin, False
EnumCheckRaises(annotation) == annotation.k \in {"typing", "none"}

\* line 104, issubclass(annotation, BaseModel): BaseModel's metaclass either hands a
\* builtin parameterised form to ABCMeta, which raises the same TypeError, or
\* answers False before that, depending on the pydantic installed
ModelCheckRaises(annotation) == annotation.k = "alias" /\ abcCheck

\* Python truthiness of a str | None value, and the value of `a or b`
Truthy(s) == s # None /\ s # ""

Or(a, b) == IF Truthy(a) THEN a ELSE b

PRIMITIVES ==
    [n \in {"bool", "int", "float", "str", "datetime", "date", "time", "ObjectId", "UUID"} |->
        CASE n = "bool" -> "BOOL"
          [] n = "int" -> "INTEGER"
          [] n = "float" -> "FLOAT"
          [] n = "str" -> "STRING"
          [] n = "datetime" -> "DATETIME"
          [] n = "date" -> "DATE"
          [] n = "time" -> "TIME"
          [] n = "ObjectId" -> "OID"
          [] n = "UUID" -> "UUID"]

InPrimitives(annotation) ==
    annotation.k = "class" /\ annotation.name \in DOMAIN PRIMITIVES

(***************************************************************************)
(* Schema nodes (kaiwadb.models.instance), as map_to_type builds them.     *)
(***************************************************************************)
PrimitiveField(alias, description, optional, type) ==
    [tag |-> "primitive", alias |-> alias, description |-> description,
     optional |-> optional, type |-> type]

ArrayField(alias, description, optional, item) ==
    [tag |-> "array", alias |-> alias, description |-> description,
     optional |-> optional, item |-> item]

UnionField(alias, description, optional, types) ==
    [tag |-> "union", alias |-> alias, description |-> description,
     optional |-> optional, types |-> types]

EnumField(alias, optional, description, name, variants) ==
    [tag |-> "enum", alias |-> alias, description |-> description,
     optional |-> optional, name |-> name, variants |-> variants]

ObjectField(optional, alias, description, properties) ==
    [tag |-> "object", alias |-> alias, description |-> description,
     optional |-> optional, properties |-> properties]

Variant(value, alias) == [value |-> value, alias |-> alias]

\* Variant(value=variant.value, alias=variant.name if variant.name != variant.value else None)
VariantOf(variant) ==
    Variant(variant.value, IF variant.name # variant.value THEN variant.name ELSE None)

(***************************************************************************)
(* The outcome of a call: a returned value, or a raised exception with     *)
(* what its message names.                                                 *)
(***************************************************************************)
Return(value) == [raised |-> None, value |-> value]

Raise(exception, about) == [raised |-> exception, about |-> about]

Raised(outcome) == outcome.raised # None

\* the first outcome of a sequence that raised: evaluation stops there
FirstRaised(outs) ==
    outs[CHOOSE i \in 1..Len(outs) :
            /\ Raised(outs[i])
            /\ \A j \in 1..(i - 1) : ~Raised(outs[j])]

AnyRaised(outs) == \E i \in 1..Len(outs) : Raised(outs[i])

(***************************************************************************)
(* A dict under insertion: a sequence of (key, value) entries in insertion *)
(* order; setting a key that is present replaces its value in place.       *)
(***************************************************************************)
DictKeys(d) == {d[i].key : i \in 1..Len(d)}

DictSet(d, key, value) ==
    IF key \in DictKeys(d)
    THEN [i \in 1..Len(d) |-> IF d[i].key = key THEN [key |-> key, value |-> value] ELSE d[i]]
    ELSE Append(d, [key |-> key, value |-> value])

(***************************************************************************)
(* set(get_args(annotation)) and the order a comprehension iterates it in. *)
(***************************************************************************)
SetOf(seq) == {seq[i] : i \in 1..Len(seq)}

RECURSIVE Distinct(_)
\* the members of a tuple, each once, in the order of first occurrence
Distinct(seq) ==
    IF seq = <<>> THEN <<>>
    ELSE LET front == Distinct(SubSeq(seq, 1, Len(seq) - 1))
             last == seq[Len(seq)]
         IN IF last \in SetOf(front) THEN front ELSE Append(front, last)

\* `for a in args` over the set args built from the tuple `tuple`: the members of
\* args, in the order hashOrder gives their positions
IterOrder(tuple, args) ==
    LET members == SelectSeq(Distinct(tuple), LAMBDA a : a \in args)
        positions == SelectSeq(hashOrder, LAMBDA p : p <= Len(members))
    IN [i \in 1..Len(positions) |-> members[positions[i]]]

\* line 67: optional := NoneType in args
OptionalMut(args) == FALSE

Optional(args) == NoneType \in args

\* line 70: len(args) == 1
IsSoleMemberMut(args) == Cardinality(args) = 0

IsSoleMember(args) == Cardinality(args) = 1

\* line 71: the sole member is derived with optional=optional
SoleMemberOptionalMut(optional) == FALSE

SoleMemberOptional(optional) == optional

\* lines 80-82: origin is list and len(args) == 1
IsListOfOne(origin, args) == origin = "list" /\ Len(args) = 1

\* line 110: the key of a field in properties, field.alias or name
FieldKey(name, field) == Or(field.alias, name)

\* line 110: the alias argument of the field's derivation is the declared name
FieldAliasArgMut(name, field) == field.alias

FieldAliasArg(name, field) == name

\* line 112: if field.annotation is not None
IsAnnotated(field) == field.annotation # NoAnnotation

RECURSIVE map_to_type(_, _, _, _)

RECURSIVE Properties(_, _)
\* lines 109-113: the dict comprehension over the first n entries of model_fields
Properties(fields, n) ==
    IF n = 0 THEN Return(<<>>)
    ELSE LET before == Properties(fields, n - 1)
             field == fields[n]
         IN IF Raised(before) THEN before
            ELSE IF ~IsAnnotated(field) THEN before
            ELSE LET value == map_to_type(field.annotation, FieldAliasArg(field.name, field),
                                          field.description, FALSE)
                 IN IF Raised(value) THEN value
                    ELSE Return(DictSet(before.value, FieldKey(field.name, field), value.value))

map_to_type(annotation, alias, description, optional) ==
    LET origin == get_origin(annotation) IN
    IF origin # None /\ origin \in {"Union", "UnionType"}
    THEN LET all == SetOf(get_args(annotation))
             opt == Optional(all)
             args == IF opt THEN all \ {NoneType} ELSE all
         IN IF IsSoleMember(args)
            THEN map_to_type(CHOOSE a \in args : TRUE, alias, description,
                             SoleMemberOptional(opt))
            ELSE LET order == IterOrder(get_args(annotation), args)
                     outs == [i \in 1..Len(order) |-> map_to_type(order[i], None, None, FALSE)]
                 IN IF AnyRaised(outs) THEN FirstRaised(outs)
                    ELSE Return(UnionField(alias, description, opt,
                                           [i \in 1..Len(outs) |-> outs[i].value]))
    ELSE IF origin # None /\ IsListOfOne(origin, get_args(annotation))
    THEN LET item == map_to_type(get_args(annotation)[1], None, None, FALSE)
         IN IF Raised(item) THEN item
            ELSE Return(ArrayField(alias, description, optional, item.value))
    ELSE IF InPrimitives(annotation)
    THEN Return(PrimitiveField(alias, description, optional, PRIMITIVES[annotation.name]))
    ELSE IF EnumCheckRaises(annotation)
    THEN Raise("TypeError", NoAnnotation)
    ELSE IF annotation.k = "enum"
    THEN Return(EnumField(alias, optional, description, annotation.name,
                          [i \in 1..Len(annotation.variants) |-> VariantOf(annotation.variants[i])]))
    ELSE IF ModelCheckRaises(annotation)
    THEN Raise("TypeError", NoAnnotation)
    ELSE IF annotation.k = "model"
    THEN LET properties == Properties(annotation.fields, Len(annotation.fields))
         IN IF Raised(properties) THEN properties
            ELSE Return(ObjectField(optional, alias, description, properties.value))
    ELSE Raise("NotImplementedError", annotation)

Table(name, alias, fields) == [name |-> name, alias |-> alias, fields |-> fields]

\* a Document subclass: a model class with its __collection__ and __table__
DocumentClass(name, collection, table, fields) ==
    [k |-> "model", name |-> name, args |-> <<>>, fields |-> fields, variants |-> <<>>,
     collection |-> collection, table |-> table]

\* line 26: doc.__collection__ or doc.__table__ or doc.__name__
TableNameMut(doc) == Or(Or(doc.table, doc.collection), doc.name)

TableName(doc) == Or(Or(doc.collection, doc.table), doc.name)

\* lines 25-29: one element of the list comprehension, after the elements before it
TableOfMut(before, doc) ==
    LET derived == map_to_type(doc, None, None, FALSE)
    IN IF Raised(before) \/ Raised(derived) THEN before
       ELSE Return(Append(before.value,
                          Table(TableName(doc), doc.name, derived.value.properties)))

TableOf(before, doc) ==
    IF Raised(before) THEN before
    ELSE LET derived == map_to_type(doc, None, None, FALSE)
         IN IF Raised(derived) THEN derived
            ELSE Return(Append(before.value,
                               Table(TableName(doc), doc.name, derived.value.properties)))

RECURSIVE TablesUpTo(_, _)
\* lines 24-31: the list comprehension over the first n documents
TablesUpTo(documents, n) ==
    IF n = 0 THEN Return(<<>>)
    ELSE TableOf(TablesUpTo(documents, n - 1), documents[n])

map_documents_to_tables(documents) == TablesUpTo(documents, Len(documents))

(***************************************************************************)
(* KaiwaDB.__init__ and _register_schema.                                  *)
(***************************************************************************)
\* requests' Response.raise_for_status(), called at line 165: raises HTTPError
\* for a 4xx or 5xx status and returns otherwise
RaisesForStatusMut(status) == FALSE

RaisesForStatus(status) == 400 <= status /\ status < 600

\* lines 157-165: what _register_schema does with the response
RegisterOutcome(status) ==
    IF status = 200 THEN Return(<<>>)
    ELSE IF status = 409 THEN Return(<<>>)
    ELSE IF RaisesForStatus(status) THEN Raise("HTTPError", NoAnnotation)
    ELSE Return(<<>>)

Idle ==
    [pc |-> "idle", raised |-> None, requests |-> 0, tables |-> <<>>,
     documents |-> <<>>, status |-> 0]

(***************************************************************************)
(* The inputs.                                                             *)
(***************************************************************************)
MaxFields == 2
MaxDocs == 2

Int == Class("int")
Str == Class("str")
Dict == Class("dict")
Color == EnumClass("Color", <<[name |-> "RED", value |-> "r"],
                             [name |-> "GREEN", value |-> "GREEN"]>>)
DictStrInt == GenericAlias("dict", <<Str, Int>>)
ListIntStr == GenericAlias("list", <<Int, Str>>)
TypingList == TypingAlias("list", <<>>)
TypingDict == TypingAlias("dict", <<Str, Int>>)
Literal == TypingAlias("Literal", <<>>)

ListOf(item) == GenericAlias("list", <<item>>)
\* typing.Union[...] / Optional[...], and the X | Y form
UnionOf(args) == TypingAlias("Union", args)
UnionTypeOf(args) == GenericAlias("UnionType", args)

\* two structured types of the same shape, and one with fields of every kind
Point == ModelClass("Point", <<FieldInfo("x", None, None, Int)>>)
Pixel == ModelClass("Pixel", <<FieldInfo("x", None, None, Int)>>)
Inner ==
    ModelClass("Inner", <<FieldInfo("v", "val", "d", UnionOf(<<Int, NoneType>>)),
                          FieldInfo("w", None, None, ListOf(UnionTypeOf(<<Str, NoneType>>)))>>)
Broken == ModelClass("Broken", <<FieldInfo("v", None, None, Int),
                                 FieldInfo("w", None, None, ListOf(Dict))>>)

MemberPool == <<Int, Str, Color, NoneType>>

\* the members of a set of types, in the order of the pool
Ordered(S) == SelectSeq(MemberPool, LAMBDA a : a \in S)

PoolUnions ==
    {UnionOf(Ordered(S)) : S \in {T \in SUBSET SetOf(MemberPool) : Cardinality(T) >= 2}}

OtherUnions ==
    { UnionTypeOf(<<NoneType, Str>>), UnionTypeOf(<<Int, Dict>>), UnionOf(<<Dict, DictStrInt>>),
      UnionTypeOf(<<DictStrInt, NoneType>>), UnionOf(<<Dict, NoneType>>),
      UnionTypeOf(<<ListOf(Int), NoneType>>), UnionOf(<<ListOf(Str), Int>>),
      UnionOf(<<Point, Pixel, NoneType>>), UnionTypeOf(<<Inner, NoneType>>),
      UnionOf(<<TypingList, NoneType>>), UnionOf(<<Dict, TypingDict>>), UnionOf(<<ListOf(UnionOf(<<Int, Str>>)), NoneType, Color>>) }

Unions == PoolUnions \cup OtherUnions

Atoms == {Int, Str, Color, NoneType, Dict, DictStrInt, ListIntStr, TypingList,
          TypingDict, Literal, Class("list"), Class("float")}

Structured == {Point, Inner, Broken}

Annotations ==
    Atoms \cup Unions \cup Structured
          \cup {ListOf(a) : a \in Atoms \cup Unions \cup Structured}
          \cup {ListOf(ListOf(UnionOf(<<Int, NoneType>>))), ListOf(ListOf(DictStrInt))}

Aliases == {None, "x"}
Descriptions == {None, "text"}

\* the most non-null members a union of the inputs has
MaxMembers == Cardinality(SetOf(MemberPool) \ {NoneType})

Permutations(n) ==
    {p \in [1..n -> 1..n] : \A i, j \in 1..n : p[i] = p[j] => i = j}

\* the declared fields a generated structured type draws from
FieldNames == <<"a", "b", "c", "d">>
FieldAliases == {None, "", "b"}
FieldTypes ==
    { <<None, Int>>, <<"text", UnionOf(<<Str, NoneType>>)>>, <<None, NoAnnotation>>,
      <<"text", ListOf(UnionOf(<<Int, Str>>))>>, <<None, DictStrInt>>,
      <<"text", Dict>>, <<None, Inner>> }

FieldsAt(i) ==
    {FieldInfo(FieldNames[i], alias, t[1], t[2]) : alias \in FieldAliases, t \in FieldTypes}

RECURSIVE FieldLists(_)
\* the field lists of exactly n declared fields
FieldLists(n) ==
    IF n = 0 THEN {<<>>}
    ELSE {Append(fs, f) : fs \in FieldLists(n - 1), f \in FieldsAt(n)}

Models == {ModelClass("Model", fs) : fs \in UNION {FieldLists(n) : n \in 0..MaxFields}}

\* the document types declared: each with its own name and fields
DocumentBodies ==
    { ModelClass("User", <<FieldInfo("id", None, None, Int),
                           FieldInfo("name", "nm", None, Str)>>),
      ModelClass("Order", <<FieldInfo("tags", None, "text", UnionOf(<<ListOf(Str), NoneType>>))>>),
      ModelClass("Blob", <<FieldInfo("id", None, None, Int),
                           FieldInfo("meta", None, None, DictStrInt)>>),
      ModelClass("Nested", <<FieldInfo("inner", None, None, Broken)>>) }

Documents ==
    {DocumentClass(body.name, collection, table, body.fields) :
        body \in DocumentBodies, collection \in {None, "", "users"}, table \in {None, "t_users"}}

RECURSIVE Batches(_)
\* the lists of exactly n documents
Batches(n) ==
    IF n = 0 THEN {<<>>}
    ELSE {Append(ds, d) : ds \in Batches(n - 1), d \in Documents}

DocumentLists == UNION {Batches(n) : n \in 0..MaxDocs}

\* the documents a client is constructed with
ClientDocuments ==
    { DocumentClass("User", "users", None, <<FieldInfo("id", None, None, Int)>>),
      DocumentClass("Order", None, None, <<FieldInfo("total", None, None, Class("float")),
                                           FieldInfo("note", None, None, UnionOf(<<Str, Int, NoneType>>))>>),
      DocumentClass("Blob", None, None, <<FieldInfo("meta", None, None, DictStrInt)>>) }

RECURSIVE ClientBatches(_)
ClientBatches(n) ==
    IF n = 0 THEN {<<>>}
    ELSE {Append(ds, d) : ds \in ClientBatches(n - 1), d \in ClientDocuments}

ClientDocumentLists == UNION {ClientBatches(n) : n \in 0..MaxDocs}

ApiKeys == {None, "", "k"}
Statuses == {200, 201, 204, 304, 400, 401, 404, 409, 500, 503}

(***************************************************************************)
(* The recursion of map_to_type, call by call.  Structured types declared  *)
(* by name refer to each other (and to themselves) through their fields'   *)
(* annotations, as classes do.                                             *)
(***************************************************************************)
RecursionLimit == 6

\* a reference to the structured type declared under name
ModelRef(name) == ModelClass(name, <<>>)

\* the structured types declared by name, with their model_fields
Declared ==
    [n \in {"Leaf", "Pair", "Node", "Parent", "Child"} |->
        CASE n = "Leaf" -> <<FieldInfo("v", None, None, Int)>>
          [] n = "Pair" -> <<FieldInfo("left", None, None, ModelRef("Leaf")),
                             FieldInfo("right", "r", None, UnionOf(<<ModelRef("Leaf"), NoneType>>))>>
          [] n = "Node" -> <<FieldInfo("value", None, None, Int),
                             FieldInfo("next", None, None, UnionOf(<<ModelRef("Node"), NoneType>>))>>
          [] n = "Parent" -> <<FieldInfo("children", None, None, ListOf(ModelRef("Child")))>>
          [] n = "Child" -> <<FieldInfo("tag", None, None, TypingDict),
                              FieldInfo("parent", None, None, ModelRef("Parent"))>>]

\* line 111: annotation.model_fields
model_fields(annotation) ==
    IF annotation.name \in DOMAIN Declared THEN Declared[annotation.name]
    ELSE annotation.fields

\* what a call of map_to_type(annotation, ...) does, by the branch it takes: it
\* recurses and then returns a node, returns a node at once, or raises
Branch(annotation) ==
    LET origin == get_origin(annotation) IN
    IF origin # None /\ origin \in {"Union", "UnionType"} THEN "recurse"
    ELSE IF origin # None /\ IsListOfOne(origin, get_args(annotation)) THEN "recurse"
    ELSE IF InPrimitives(annotation) THEN "return"
    ELSE IF EnumCheckRaises(annotation) THEN "TypeError"
    ELSE IF annotation.k = "enum" THEN "return"
    ELSE IF ModelCheckRaises(annotation) THEN "TypeError"
    ELSE IF annotation.k = "model" THEN "recurse"
    ELSE "NotImplementedError"

\* lines 71, 77, 84 and 110: the annotations of the recursive calls a call makes,
\* in the order it makes them
RecursiveCallsMut(annotation) ==
    LET origin == get_origin(annotation) IN
    IF origin # None /\ origin \in {"Union", "UnionType"}
    THEN LET all == SetOf(get_args(annotation))
             args == IF Optional(all) THEN all \ {NoneType} ELSE all
         IN IF IsSoleMember(args) THEN <<CHOOSE a \in args : TRUE>>
            ELSE IterOrder(get_args(annotation), args)
    ELSE IF origin # None /\ IsListOfOne(origin, get_args(annotation))
    THEN <<annotation>>
    ELSE IF annotation.k = "model"
    THEN LET annotated == SelectSeq(model_fields(annotation), IsAnnotated)
         IN [i \in 1..Len(annotated) |-> annotated[i].annotation]
    ELSE <<>>

RecursiveCalls(annotation) ==
    LET origin == get_origin(annotation) IN
    IF origin # None /\ origin \in {"Union", "UnionType"}
    THEN LET all == SetOf(get_args(annotation))
             args == IF Optional(all) THEN all \ {NoneType} ELSE all
         IN IF IsSoleMember(args) THEN <<CHOOSE a \in args : TRUE>>
            ELSE IterOrder(get_args(annotation), args)
    ELSE IF origin # None /\ IsListOfOne(origin, get_args(annotation))
    THEN <<get_args(annotation)[1]>>
    ELSE IF annotation.k = "model"
    THEN LET annotated == SelectSeq(model_fields(annotation), IsAnnotated)
         IN [i \in 1..Len(annotated) |-> annotated[i].annotation]
    ELSE <<>>

\* the frame of a call: its annotation, the position of that type in the type the
\* top-level call was given (the path of child indices from it), and how many of
\* its recursive calls it has made
Frame(annotation, path) == [annotation |-> annotation, path |-> path, made |-> 0]

NotCalled ==
    [pc |-> "idle", root |-> NoAnnotation, stack |-> <<>>, visited |-> <<>>, raised |-> None]

\* the types the recursion is started on
Roots ==
    Annotations \cup {ModelRef(n) : n \in DOMAIN Declared}
                \cup {ListOf(ModelRef("Pair")), UnionOf(<<ModelRef("Node"), NoneType>>),
                      UnionOf(<<ModelRef("Pair"), ModelRef("Leaf"), Int>>),
                      ListOf(ListOf(ListOf(ListOf(ListOf(ListOf(Int))))))}

(***************************************************************************)
(* The state machine.                                                      *)
(***************************************************************************)
NoCall == [op |-> None]

Init ==
    /\ hashOrder \in Permutations(MaxMembers)
    /\ abcCheck \in BOOLEAN
    /\ call = NoCall
    /\ result = Return(<<>>)
    /\ client = Idle
    /\ walk = NotCalled

\* a call of map_to_type(annotation, alias, description)
CallMapToType(annotation, alias, description) ==
    /\ call = NoCall
    /\ call' = [op |-> "map_to_type", annotation |-> annotation, alias |-> alias,
                description |-> description]
    /\ result' = map_to_type(annotation, alias, description, FALSE)
    /\ UNCHANGED <<hashOrder, abcCheck, client, walk>>

\* a call of map_documents_to_tables(documents)
CallMapDocumentsToTables(documents) ==
    /\ call = NoCall
    /\ call' = [op |-> "map_documents_to_tables", documents |-> documents]
    /\ result' = map_documents_to_tables(documents)
    /\ UNCHANGED <<hashOrder, abcCheck, client, walk>>

\* KaiwaDB(documents=..., api_key=...) up to the request of _register_schema, lines
\* 113-156; environ is the KAIWADB_API_KEY of os.environ, writable whether
\* tables.json can be written
Construct(documents, api_key, environ, writable) ==
    /\ client.pc = "idle"
    /\ LET tables == map_documents_to_tables(documents)
           started == [Idle EXCEPT !.documents = documents]
       IN client' =
            IF ~Truthy(api_key) /\ environ = None
            THEN [started EXCEPT !.pc = "raised", !.raised = "KeyError"]
            ELSE IF Raised(tables)
            THEN [started EXCEPT !.pc = "raised", !.raised = tables.raised]
            ELSE IF ~writable
            THEN [started EXCEPT !.pc = "raised", !.raised = "OSError",
                                 !.tables = tables.value]
            ELSE [started EXCEPT !.pc = "registering", !.tables = tables.value,
                                 !.requests = 1]
    /\ UNCHANGED <<hashOrder, abcCheck, call, result, walk>>

\* the response to the request arrives: lines 157-165, and __init__ returns
Respond(status) ==
    /\ client.pc = "registering"
    /\ LET outcome == RegisterOutcome(status)
       IN client' =
            IF Raised(outcome)
            THEN [client EXCEPT !.pc = "raised", !.raised = outcome.raised, !.status = status]
            ELSE [client EXCEPT !.pc = "constructed", !.status = status]
    /\ UNCHANGED <<hashOrder, abcCheck, call, result, walk>>

\* requests.post raises instead of returning a response
RequestFails ==
    /\ client.pc = "registering"
    /\ client' = [client EXCEPT !.pc = "raised", !.raised = "ConnectionError"]
    /\ UNCHANGED <<hashOrder, abcCheck, call, result, walk>>

\* the top-level call map_to_type(root) is made (line 49)
Enter(root) ==
    /\ walk.pc = "idle"
    /\ walk' = [pc |-> "running", root |-> root, stack |-> <<Frame(root, <<>>)>>,
                visited |-> << <<>> >>, raised |-> None]
    /\ UNCHANGED <<hashOrder, abcCheck, call, result, client>>

\* the running call raises (lines 92, 104, 116): no caller catches, so the
\* exception leaves the top-level call
RaiseFromCall ==
    /\ walk.pc = "running"
    /\ LET top == walk.stack[Len(walk.stack)]
       IN /\ Branch(top.annotation) \notin {"recurse", "return"}
          /\ walk' = [walk EXCEPT !.pc = "done", !.stack = <<>>,
                                  !.raised = Branch(top.annotation)]
    /\ UNCHANGED <<hashOrder, abcCheck, call, result, client>>

\* the running call makes its next recursive call (lines 71, 77, 84, 110); the
\* interpreter raises RecursionError when the stack is at its limit
Descend ==
    /\ walk.pc = "running"
    /\ LET depth == Len(walk.stack)
           top == walk.stack[depth]
           calls == RecursiveCalls(top.annotation)
       IN /\ Branch(top.annotation) = "recurse"
          /\ top.made < Len(calls)
          /\ walk' =
               IF depth >= RecursionLimit
               THEN [walk EXCEPT !.pc = "done", !.stack = <<>>, !.raised = "RecursionError"]
               ELSE LET path == Append(top.path, top.made + 1)
                    IN [walk EXCEPT
                          !.stack = Append([walk.stack EXCEPT ![depth].made = top.made + 1],
                                           Frame(calls[top.made + 1], path)),
                          !.visited = Append(walk.visited, path)]
    /\ UNCHANGED <<hashOrder, abcCheck, call, result, client>>

\* the running call returns its node (lines 71-114) to its caller, the top-level
\* call to the caller of map_to_type
ReturnFromCall ==
    /\ walk.pc = "running"
    /\ LET depth == Len(walk.stack)
           top == walk.stack[depth]
       IN /\ \/ Branch(top.annotation) = "return"
             \/ /\ Branch(top.annotation) = "recurse"
                /\ top.made = Len(RecursiveCalls(top.annotation))
          /\ walk' = [walk EXCEPT !.stack = SubSeq(walk.stack, 1, depth - 1),
                                  !.pc = IF depth = 1 THEN "done" ELSE "running"]
    /\ UNCHANGED <<hashOrder, abcCheck, call, result, client>>

\* each guard is repeated before the quantifier, so that the inputs are drawn only
\* where the call can be made
NextDerive ==
    \/ /\ call = NoCall
       /\ \E annotation \in Annotations, alias \in Aliases, description \in Descriptions :
             CallMapToType(annotation, alias, description)
    \/ /\ call = NoCall
       /\ \E annotation \in Models : CallMapToType(annotation, None, None)

NextTables ==
    /\ call = NoCall
    /\ \E documents \in DocumentLists : CallMapDocumentsToTables(documents)

NextClient ==
    \/ /\ client.pc = "idle"
       /\ \E documents \in ClientDocumentLists, api_key \in ApiKeys,
             environ \in {None, "e"}, writable \in BOOLEAN :
             Construct(documents, api_key, environ, writable)
    \/ \E status \in Statuses : Respond(status)
    \/ RequestFails

NextWalk ==
    \/ /\ walk.pc = "idle"
       /\ \E root \in Roots : Enter(root)
    \/ RaiseFromCall
    \/ Descend
    \/ ReturnFromCall

Next == NextDerive \/ NextTables \/ NextClient \/ NextWalk

Spec == Init /\ [][Next]_vars
SpecDerive == Init /\ [][NextDerive]_vars
SpecTables == Init /\ [][NextTables]_vars
SpecClient == Init /\ [][NextClient]_vars
\* a call in progress keeps running: the interpreter executes it to its end
SpecWalk == Init /\ [][NextWalk]_vars /\ WF_vars(RaiseFromCall \/ Descend \/ ReturnFromCall)

(***************************************************************************)
(* The claims.                                                             *)
(***************************************************************************)
IsUnion(annotation) == get_origin(annotation) \in {"Union", "UnionType"}

\* the member types of a union other than the null marker
NonNull(annotation) == SetOf(get_args(annotation)) \ {NoneType}

Nullable(annotation) == IsUnion(annotation) /\ NoneType \in SetOf(get_args(annotation))

\* the call made is map_to_type and it returned a node
Derived == call.op = "map_to_type" /\ ~Raised(result)

\* the call made is map_to_type(T | None, alias, description) for a single type T
CallOfOptionalT ==
    /\ call.op = "map_to_type"
    /\ Nullable(call.annotation)
    /\ Cardinality(NonNull(call.annotation)) = 1

\* C1: map_to_type of the union of a supported type T and the null marker, with any
\* alias and description, returns the node map_to_type returns for T alone with
\* that alias and description, except that optional is true; the node is not a
\* Union wrapper.
C1_OptionalOfT ==
    CallOfOptionalT =>
        LET T == CHOOSE a \in NonNull(call.annotation) : TRUE
            alone == map_to_type(T, call.alias, call.description, FALSE)
        IN ~Raised(alone) =>
              /\ ~Raised(result)
              /\ alone.value.optional = FALSE
              /\ result.value = [alone.value EXCEPT !.optional = TRUE]
              /\ result.value.tag # "union"

C1_Witness ==
    /\ CallOfOptionalT
    /\ call.alias = "x"
    /\ call.description = "text"
    /\ ~Raised(result)
    /\ result.value.tag = "array"
    /\ result.value.optional

RECURSIVE OptionalAgrees(_, _)
\* node, derived for the position whose type is annotation, and every node below
\* it, has optional true exactly when the type at its position is a union with
\* the null marker
OptionalAgrees(annotation, node) ==
    LET shape == IF IsUnion(annotation) /\ Cardinality(NonNull(annotation)) = 1
                 THEN CHOOSE a \in NonNull(annotation) : TRUE
                 ELSE annotation
    IN /\ node.optional = Nullable(annotation)
       /\ CASE node.tag = "array" ->
                 /\ get_origin(shape) = "list"
                 /\ OptionalAgrees(get_args(shape)[1], node.item)
            [] node.tag = "union" ->
                 /\ IsUnion(shape)
                 /\ \A i \in 1..Len(node.types) :
                       \E a \in NonNull(shape) : OptionalAgrees(a, node.types[i])
            [] node.tag = "object" ->
                 /\ shape.k = "model"
                 /\ \A i \in 1..Len(node.properties) :
                       \E j \in 1..Len(shape.fields) :
                          /\ shape.fields[j].annotation # NoAnnotation
                          /\ shape.fields[j].alias \in {None, "", node.properties[i].key}
                          /\ shape.fields[j].alias \in {None, ""} =>
                                shape.fields[j].name = node.properties[i].key
                          /\ OptionalAgrees(shape.fields[j].annotation, node.properties[i].value)
            [] OTHER -> TRUE

\* C2: in the tree a top-level map_to_type call returns, every node's optional
\* flag is true iff the type at its position is a union containing the null
\* marker, at every depth.
C2_OptionalIffNullable ==
    Derived => OptionalAgrees(call.annotation, result.value)

C2_Witness ==
    /\ Derived
    /\ call.annotation = ListOf(Inner)
    /\ ~result.value.optional
    /\ ~result.value.item.optional
    /\ result.value.item.properties[1].value.optional
    /\ ~result.value.item.properties[2].value.optional
    /\ result.value.item.properties[2].value.item.optional

\* the call made is map_to_type of a structured type and it returned its Object node
DerivedObject ==
    /\ Derived
    /\ call.annotation.k = "model"
    /\ result.value.tag = "object"

\* the declared fields of the structured type derived that have a type annotation
AnnotatedFields ==
    SelectSeq(call.annotation.fields, LAMBDA f : f.annotation # NoAnnotation)

\* the key a field resolves to: its alias if it has one (an empty alias counts as
\* none), else its declared name
ClaimedKey(f) == IF f.alias \notin {None, ""} THEN f.alias ELSE f.name

RECURSIVE Unsupported(_)
\* the types within annotation, at any depth, that match none of the recognized
\* shapes: not a union, not a list of one element type, not a primitive, not an
\* enumeration, not a structured type
Unsupported(annotation) ==
    IF IsUnion(annotation)
    THEN UNION {Unsupported(a) : a \in NonNull(annotation)}
    ELSE IF get_origin(annotation) = "list" /\ Len(get_args(annotation)) = 1
    THEN Unsupported(get_args(annotation)[1])
    ELSE IF annotation.k = "class" /\ annotation.name \in DOMAIN PRIMITIVES
    THEN {}
    ELSE IF annotation.k = "enum"
    THEN {}
    ELSE IF annotation.k = "model"
    THEN UNION {Unsupported(annotation.fields[i].annotation) :
                   i \in {j \in 1..Len(annotation.fields) :
                             annotation.fields[j].annotation # NoAnnotation}}
    ELSE {annotation}

\* C4: deriving a type that has an unsupported type at any depth (a list with
\* zero or several element types and any other parameterised container included)
\* raises NotImplementedError naming an offending type: it returns no node and
\* raises no other kind of error.
C4_UnsupportedRaisesNotImplemented ==
    (call.op = "map_to_type" /\ Unsupported(call.annotation) # {}) =>
        /\ Raised(result)
        /\ result.raised = "NotImplementedError"
        /\ result.about \in Unsupported(call.annotation)

\* the part of C4 the code keeps: a type with an unsupported type within it never
\* yields a node, and a type without one always does
C4_UnsupportedNeverReturns ==
    call.op = "map_to_type" => (Raised(result) <=> Unsupported(call.annotation) # {})

\* C5: a Union node returned by map_to_type has one child per distinct non-null
\* member of the source union, at least two; each child is the derivation of its
\* member alone with no alias, no description and optional false; the node has
\* the caller's alias and description, and optional true iff a null member was
\* removed.
C5_UnionNode ==
    (Derived /\ result.value.tag = "union") =>
        LET members == NonNull(call.annotation)
            types == result.value.types
        IN /\ IsUnion(call.annotation)
           /\ Len(types) = Cardinality(members)
           /\ Len(types) >= 2
           /\ \A a \in members :
                 /\ ~Raised(map_to_type(a, None, None, FALSE))
                 /\ \E i \in 1..Len(types) : types[i] = map_to_type(a, None, None, FALSE).value
           /\ \A i \in 1..Len(types) :
                 /\ types[i].alias = None
                 /\ types[i].description = None
                 /\ types[i].optional = FALSE
                 /\ \E a \in members : types[i] = map_to_type(a, None, None, FALSE).value
           /\ result.value.alias = call.alias
           /\ result.value.description = call.description
           /\ result.value.optional = (NoneType \in SetOf(get_args(call.annotation)))

C5_Witness ==
    /\ Derived
    /\ result.value.tag = "union"
    /\ call.annotation = UnionOf(<<Int, Str, Color, NoneType>>)
    /\ call.alias = "x"
    /\ Len(result.value.types) = 3
    /\ result.value.types[1].tag = "enum"
    /\ result.value.optional

\* C6: the Object node of a structured type has, for every declared field with a
\* type annotation, an entry keyed by the field's alias if it has one and else by
\* its declared name, mapped to the derivation of that field's type; the entries
\* are in declaration order, and an unannotated field adds no entry.
C6_PropertiesPerField ==
    DerivedObject =>
        /\ Len(result.value.properties) = Len(AnnotatedFields)
        /\ \A j \in 1..Len(AnnotatedFields) :
              /\ result.value.properties[j].key = ClaimedKey(AnnotatedFields[j])
              /\ result.value.properties[j].value =
                    map_to_type(AnnotatedFields[j].annotation, AnnotatedFields[j].name,
                                AnnotatedFields[j].description, FALSE).value

\* C10: the Object node of a structured type has exactly as many properties as the
\* type has annotated fields: no field's entry is overwritten by another field
\* that resolves to the same key.
C10_NoFieldOverwritten ==
    DerivedObject => Len(result.value.properties) = Len(AnnotatedFields)

\* the call made is map_documents_to_tables
Assembled == call.op = "map_documents_to_tables"

\* the derivation of document d alone, as a top-level call
DerivedAlone(d) == map_to_type(d, None, None, FALSE)

\* C7: one Table per document, in input order; its name is the document's declared
\* collection name if it has one, else its declared table name if it has one, else
\* the type's name (a name declared as the empty string counts as none); its
\* alias is the type's name; its fields are the properties derived from that
\* document alone, whatever else is in the batch.
C7_TablePerDocument ==
    (Assembled /\ ~Raised(result)) =>
        /\ Len(result.value) = Len(call.documents)
        /\ \A i \in 1..Len(call.documents) :
              LET d == call.documents[i]
              IN /\ result.value[i].name =
                       IF d.collection \notin {None, ""} THEN d.collection
                       ELSE IF d.table \notin {None, ""} THEN d.table
                       ELSE d.name
                 /\ result.value[i].alias = d.name
                 /\ ~Raised(DerivedAlone(d))
                 /\ result.value[i].fields = DerivedAlone(d).value.properties

C7_Witness ==
    /\ Assembled
    /\ ~Raised(result)
    /\ Len(call.documents) = 2
    /\ call.documents[1].name = "Order"
    /\ call.documents[1].collection = None
    /\ call.documents[1].table = "t_users"
    /\ call.documents[2].name = "User"
    /\ call.documents[2].collection = "users"
    /\ call.documents[2].table = "t_users"
    /\ result.value[1].name = "t_users"
    /\ result.value[2].name = "users"
    /\ result.value[2].alias = "User"
    /\ Len(result.value[2].fields) = 2

\* the documents of the batch whose derivation fails
Malformed == {i \in 1..Len(call.documents) : Raised(DerivedAlone(call.documents[i]))}

\* C8: if the derivation of any document of the batch fails, at any depth, the call
\* fails with that error and returns nothing: neither the Tables of the documents
\* before the malformed one nor a partial Object.
C8_FailureAbortsBatch ==
    (Assembled /\ Malformed # {}) =>
        LET first == CHOOSE i \in Malformed : \A j \in Malformed : i <= j
        IN /\ Raised(result)
           /\ result = DerivedAlone(call.documents[first])
           /\ "value" \notin DOMAIN result

C8_Witness ==
    /\ Assembled
    /\ Len(call.documents) = 2
    /\ Malformed = {2}
    /\ call.documents[2].name = "Nested"
    /\ result.raised = "NotImplementedError"
    /\ result.about = Dict

\* the response arrived (a status is recorded only then)
Responded == client.status # 0

\* C9 (as stated): construction completes normally only when the registration
\* response status is 200 or 409; every other status raises HTTPError.
C9_OnlyOkOrConflictCompletes ==
    /\ client.pc = "constructed" => client.status \in {200, 409}
    /\ (Responded /\ client.status \notin {200, 409}) =>
          (client.pc = "raised" /\ client.raised = "HTTPError")

\* C9 (amended): construction derives the tables first and then, if that and the
\* writing of tables.json succeeded, sends one registration request and no other;
\* it completes normally when the response status is 200, 409 or any status
\* outside 400..599, and raises HTTPError exactly for a 4xx or 5xx status other
\* than 409, in which case no client is obtained.
C9_CompletesUnlessClientOrServerError ==
    /\ client.requests <= 1
    /\ client.requests = 1 <=> client.pc \in {"registering", "constructed"}
                                  \/ (client.pc = "raised"
                                         /\ client.raised \in {"HTTPError", "ConnectionError"})
    /\ client.requests = 1 =>
          /\ ~Raised(map_documents_to_tables(client.documents))
          /\ client.tables = map_documents_to_tables(client.documents).value
    /\ Responded =>
          IF client.status >= 400 /\ client.status < 600 /\ client.status # 409
          THEN client.pc = "raised" /\ client.raised = "HTTPError"
          ELSE client.pc = "constructed"
    /\ client.pc = "constructed" => Responded
    /\ client.raised = "HTTPError" => Responded

C9_Witness ==
    /\ client.pc = "constructed"
    /\ client.status = 204
    /\ client.requests = 1
    /\ Len(client.tables) = 2

RECURSIVE SeqOfSet(_)
\* the members of a finite set, each once, as a sequence
SeqOfSet(S) ==
    IF S = {} THEN <<>>
    ELSE LET x == CHOOSE y \in S : TRUE IN Append(SeqOfSet(S \ {x}), x)

\* the sub-parts of a type: the non-null members of a union, the element type of a
\* list of one element type, the types of the annotated fields of a structured type
Parts(annotation) ==
    IF IsUnion(annotation) THEN SeqOfSet(NonNull(annotation))
    ELSE IF get_origin(annotation) = "list" /\ Len(get_args(annotation)) = 1
    THEN <<get_args(annotation)[1]>>
    ELSE IF annotation.k = "model"
    THEN LET annotated == SelectSeq(model_fields(annotation),
                                    LAMBDA f : f.annotation # NoAnnotation)
         IN [i \in 1..Len(annotated) |-> annotated[i].annotation]
    ELSE <<>>

RECURSIVE RefsIn(_)
\* the structured types declared by name that a type refers to directly
RefsIn(annotation) ==
    IF annotation.k = "model" /\ annotation.name \in DOMAIN Declared
    THEN {annotation.name}
    ELSE UNION {RefsIn(p) : p \in SetOf(Parts(annotation))}

\* the declared types the fields of the declared type n refer to
RefersTo(n) == UNION {RefsIn(p) : p \in SetOf(Parts(ModelRef(n)))}

RECURSIVE Reach(_)
\* the declared types reachable from those of S through fields
Reach(S) ==
    LET next == S \cup UNION {RefersTo(n) : n \in S}
    IN IF next = S THEN S ELSE Reach(next)

\* the graph of nested structured types of annotation contains no cycle
Acyclic(annotation) ==
    \A n \in Reach(RefsIn(annotation)) : n \notin Reach(RefersTo(n))

RECURSIVE Positions(_)
RECURSIVE SumPositions(_)
\* the number of type positions of an acyclic type: itself and those of its sub-parts
Positions(annotation) == 1 + SumPositions(Parts(annotation))

SumPositions(parts) ==
    IF parts = <<>> THEN 0
    ELSE Positions(Head(parts)) + SumPositions(Tail(parts))

RECURSIVE Height(_)
RECURSIVE MaxHeight(_)
\* the depth of nesting of an acyclic type
Height(annotation) == 1 + MaxHeight(Parts(annotation))

MaxHeight(parts) ==
    IF parts = <<>> THEN 0
    ELSE LET h == Height(Head(parts))
             rest == MaxHeight(Tail(parts))
         IN IF h >= rest THEN h ELSE rest

\* a call of map_to_type on a type without a cycle is in progress or over
WalkOfAcyclic == walk.pc # "idle" /\ Acyclic(walk.root)

\* every call in progress was made on a sub-part of its caller's type, a strictly
\* smaller type; no position was visited twice, and none outside the type
C11_DescendsIntoSubParts ==
    WalkOfAcyclic =>
        /\ \A i \in 1..(Len(walk.stack) - 1) :
              /\ walk.stack[i + 1].annotation \in SetOf(Parts(walk.stack[i].annotation))
              /\ Height(walk.stack[i + 1].annotation) < Height(walk.stack[i].annotation)
        /\ \A i, j \in 1..Len(walk.visited) : walk.visited[i] = walk.visited[j] => i = j
        /\ Len(walk.visited) <= Positions(walk.root)

\* once over, the call has returned after visiting every position once, or raised
\* one of map_to_type's errors (or, for a type nested deeper than the interpreter
\* allows, RecursionError) after visiting some positions once
C11_EndsAfterOneVisitEach ==
    (WalkOfAcyclic /\ walk.pc = "done") =>
        /\ walk.stack = <<>>
        /\ walk.raised = None => Len(walk.visited) = Positions(walk.root)
        /\ walk.raised \in {None, "TypeError", "NotImplementedError", "RecursionError"}
        /\ walk.raised = "RecursionError" => Height(walk.root) > RecursionLimit
        /\ walk.root \in Annotations =>
              walk.raised = map_to_type(walk.root, None, None, FALSE).raised

\* C11: for a finite type whose graph of nested structured types has no cycle,
\* map_to_type terminates, returning a node or raising, after visiting each type
\* position once (the positions before the failure, when it raises); a recursive
\* call is only ever made on a strict sub-part of the caller's type: a member of
\* the union, the element type of the list, the type of a field.
C11_AcyclicTerminates ==
    /\ [](C11_DescendsIntoSubParts /\ C11_EndsAfterOneVisitEach)
    /\ (WalkOfAcyclic /\ walk.pc = "running") ~> (walk.pc = "done")

C11_Witness ==
    /\ walk.pc = "done"
    /\ walk.root = ListOf(ModelRef("Pair"))
    /\ Acyclic(walk.root)
    /\ walk.raised = None
    /\ Positions(walk.root) = 7
    /\ Len(walk.visited) = 7
    /\ walk.visited[7] = <<1, 2, 1, 1>>

====
